---- MODULE Spec2Model ----
(***************************************************************************)
(* Verification model of the retrieval core of RAG-LLM-ASSESSMENT:         *)
(*   rag/vectorstore.py  (VectorStore)                                     *)
(*   rag/pipeline.py     (build_vectorstore_for_subject and its helper)    *)
(*   rag/retriever.py    (CrossEncoderReranker, two-stage retrieval)       *)
(*                                                                         *)
(* Scores are floats in the code; here they are integers in tenths         *)
(* (0.5 is 5).  A vector is represented by its inner product with the one  *)
(* probe query of the model, which is all that IndexFlatIP.search needs.   *)
(* A chunk text is the pair <<document id, chunk index>>.                  *)
(***************************************************************************)
EXTENDS Integers, Sequences, FiniteSets, TLC

\* ------------------------------------------------------------------ bounds
MaxStore == 3        \* largest length of a store collection in SpecStore
MaxArg == 2          \* longest argument list handed to VectorStore.add
NDocs == 2           \* source documents of the subject
ChunksPerDoc == 2    \* chunks create_chunks yields for an extractable file
NThreads == 2        \* callers of Embedder()
MaxConstructions == 4   \* Embedder() constructions in one run
MaxParas == 2        \* paragraphs of a text handed to create_chunks
MaxRetries == 3      \* largest max_retries handed to call_openrouter
MaxTasks == 3        \* rows of assessment_task
NSessions == 2       \* rows of session

\* ------------------------------------------------------- helper operators
Range(s) == {s[i] : i \in 1..Len(s)}

Min(a, b) == IF a <= b THEN a ELSE b

Take(s, n) == SubSeq(s, 1, Min(n, Len(s)))

SeqsUpTo(S, n) == UNION {[1..k -> S] : k \in 0..n}

\* ===================================================== rag/vectorstore.py
\* the values the model draws vectors, texts and metadata from
VecVals == {2, 9}

TextVals == {<<0, 1>>, <<0, 2>>}

\* the empty dict {} that add pads with
EmptyMeta == [doc_id |-> 0, chunk_index |-> 0]

MetaVals == {EmptyMeta, [doc_id |-> 0, chunk_index |-> 1]}

\* VectorStore.__init__: an empty index, no texts, no metadata
NewVectorStore(dim) ==
    [dim |-> dim, index |-> <<>>, texts |-> <<>>, metadata |-> <<>>]

\* The embeddings argument: None, a 1-D array (one vector, reshaped to one
\* row) or a 2-D array of rows.  len() of a 1-D array is its dimension, > 0.
EmbArgs ==
    {[shape |-> "none", rows |-> <<>>]}
      \cup {[shape |-> "1d", rows |-> <<v>>] : v \in VecVals}
      \cup {[shape |-> "2d", rows |-> r] : r \in SeqsUpTo(VecVals, MaxArg)}

\* The texts argument is handed to list.extend, which appends the items its
\* iteration yields: the elements of a list, the characters of a str.
TextArgs == SeqsUpTo(TextVals, MaxArg)

\* The metadata argument: omitted (None), or an iterable (list items, or the
\* keys of a dict) handed to list.extend.
MetaArgs ==
    {[given |-> FALSE, items |-> <<>>]}
      \cup {[given |-> TRUE, items |-> m] : m \in SeqsUpTo(MetaVals, MaxArg)}

EmbEmpty(embeddings) ==
    \/ embeddings.shape = "none"
    \/ embeddings.shape = "2d" /\ Len(embeddings.rows) = 0

\* `if metadata:` is false for None and for an empty list or dict
Truthy(metadata) == metadata.given /\ Len(metadata.items) > 0

\* VectorStore.add
VSAdd(store, embeddings, texts, metadata) ==
    IF EmbEmpty(embeddings)
    THEN store
    ELSE [store EXCEPT
            !.index = @ \o embeddings.rows,
            !.texts = @ \o texts,
            !.metadata = @ \o (IF Truthy(metadata)
                               THEN metadata.items
                               ELSE [i \in 1..Len(texts) |-> EmptyMeta])]

\* VectorStore.get_stats
GetStats(store) ==
    [dimension |-> store.dim,
     total_vectors |-> Len(store.index),
     total_texts |-> Len(store.texts),
     has_metadata |-> Len(store.metadata) > 0]

\* faiss IndexFlatIP.search: the position with the largest inner product
\* among those not yet taken (of equal scores the earlier vector first)
Best(index, avail) ==
    CHOOSE i \in avail :
        \A j \in avail : index[i] > index[j] \/ (index[i] = index[j] /\ i <= j)

RECURSIVE TopPositions(_, _, _)
TopPositions(index, avail, k) ==
    IF k = 0 \/ avail = {}
    THEN <<>>
    ELSE LET b == Best(index, avail)
         IN  <<b>> \o TopPositions(index, avail \ {b}, k - 1)

\* index.search(query_vector, k): the k best positions, best first, padded
\* with -1 when the index holds fewer than k vectors
FaissSearch(index, k) ==
    LET top == TopPositions(index, 1..Len(index), k)
    IN  top \o [i \in 1..(k - Len(top)) |-> -1]

\* a candidate dict; original_score and rerank_score are keys the retriever
\* adds, present only when reranked is TRUE
Candidate(text, score, meta) ==
    [text |-> text, score |-> score, metadata |-> meta,
     original_score |-> 0, rerank_score |-> 0, reranked |-> FALSE]

\* VectorStore.search_with_scores without filter_fn: positions the index
\* returns that are not padding and are below len(self.texts)
SearchHits(store, k) ==
    SelectSeq(FaissSearch(store.index, Min(k, Len(store.texts))),
              LAMBDA p : p # -1 /\ p <= Len(store.texts))

\* self.metadata[idx] raises IndexError when metadata is shorter than texts
SearchRaises(store, k) ==
    \E i \in 1..Len(SearchHits(store, k)) :
        SearchHits(store, k)[i] > Len(store.metadata)

\* a search that pairs the i-th result with the i-th stored metadata
SearchWithScores_bypos(store, k) ==
    LET hits == Take(SearchHits(store, k), k)
    IN  [i \in 1..Len(hits) |->
            Candidate(store.texts[hits[i]], store.index[hits[i]],
                      store.metadata[i])]

SearchWithScores(store, k) ==
    LET hits == Take(SearchHits(store, k), k)
    IN  [i \in 1..Len(hits) |->
            Candidate(store.texts[hits[i]], store.index[hits[i]],
                      store.metadata[hits[i]])]

\* what a call of search_with_scores(q, k) gives its caller
SearchOutcome(store, k) ==
    IF SearchRaises(store, k)
    THEN [status |-> "raised", results |-> <<>>]
    ELSE [status |-> "returned", results |-> SearchWithScores(store, k)]

\* VectorStore.search: the texts of search_with_scores
VSSearch(store, k) ==
    [i \in 1..Len(SearchWithScores(store, k)) |->
        SearchWithScores(store, k)[i].text]

\* ======================================================= rag/retriever.py
\* the score CrossEncoderReranker.rerank falls back to
FallbackScore == 5

\* a test that lets a whitespace-only query through
Blank_empty(q) == q = ""

\* `not query or not query.strip()`
Blank(q) == q = "" \/ q = " "

\* the first element with the largest score
RECURSIVE FirstMax(_, _, _)
FirstMax(s, i, best) ==
    IF i > Len(s) THEN best
    ELSE FirstMax(s, i + 1, IF s[i].score > s[best].score THEN i ELSE best)

RemoveAt(s, i) == SubSeq(s, 1, i - 1) \o SubSeq(s, i + 1, Len(s))

\* list.sort(key=lambda x: x["score"], reverse=True): descending and stable
RECURSIVE SortDesc(_)
SortDesc(s) ==
    IF s = <<>> THEN <<>>
    ELSE LET m == FirstMax(s, 1, 1)
         IN  <<s[m]>> \o SortDesc(RemoveAt(s, m))

\* the relevance score a reranking model gives the pair (query, text);
\* scores[i] is the score of the pair whose text is chunk i
PairScore(scores, text) == scores[text[2]]

\* CrossEncoderReranker.rerank, lines 54-56 and 79-82: the fallback list
RerankFallback(documents) ==
    [i \in 1..Len(documents) |->
        [text |-> documents[i], score |-> FallbackScore, reranked |-> FALSE]]

\* CrossEncoderReranker.rerank, lines 58-77
RerankScored(documents, scores, k) ==
    Take(SortDesc([i \in 1..Len(documents) |->
                     [text |-> documents[i],
                      score |-> PairScore(scores, documents[i]),
                      reranked |-> TRUE]]), k)

\* CrossEncoderReranker.rerank; predict is "ok" or "throws"
Rerank(is_loaded, predict, documents, scores, k) ==
    IF ~is_loaded \/ documents = <<>> THEN RerankFallback(documents)
    ELSE IF predict = "throws" THEN RerankFallback(documents)
    ELSE RerankScored(documents, scores, k)

\* lines 180-184 and 203-207: the loop that writes the rerank scores into
\* the candidates; it raises IndexError at the first candidate that has
\* no score, leaving the earlier candidates updated
UpdateScores(cands, newScores) ==
    [i \in 1..Len(cands) |->
        IF i <= Len(newScores)
        THEN [cands[i] EXCEPT !.original_score = cands[i].score,
                              !.rerank_score = newScores[i],
                              !.score = newScores[i],
                              !.reranked = TRUE]
        ELSE cands[i]]

\* lines 169-192: the branch of the auto-loaded cross-encoder
CrossEncoderBranch(cands, predict, scores) ==
    LET documents == [i \in 1..Len(cands) |-> cands[i].text]
        reranked_results == Rerank(TRUE, predict, documents, scores,
                                   Len(cands))
        newScores == [i \in 1..Len(reranked_results) |->
                         reranked_results[i].score]
    IN  IF Len(newScores) < Len(cands)
        THEN UpdateScores(cands, newScores)
        ELSE SortDesc(UpdateScores(cands, newScores))

\* what reranker.predict(pairs) of an injected reranker gives:
\*   "ok" one score per pair, "short" one score too few, "throws" raises
PredictedScores(behaviour, cands, scores) ==
    LET all == [i \in 1..Len(cands) |-> PairScore(scores, cands[i].text)]
    IN  CASE behaviour = "ok" -> all
          [] behaviour = "short" -> SubSeq(all, 1, Len(all) - 1)
          [] OTHER -> <<>>

\* lines 193-213: the branch of the injected reranker
ManualBranch(cands, behaviour, scores) ==
    IF behaviour = "throws" THEN cands
    ELSE IF behaviour = "short"
         THEN UpdateScores(cands, PredictedScores(behaviour, cands, scores))
         ELSE SortDesc(UpdateScores(cands,
                                    PredictedScores(behaviour, cands, scores)))

\* lines 166-215: step 2
RerankStep(cands, ce_loaded, predict, injected, scores) ==
    IF ce_loaded THEN CrossEncoderBranch(cands, predict, scores)
    ELSE IF injected # "none" THEN ManualBranch(cands, injected, scores)
    ELSE cands

\* mutant of FilterByThreshold: the filter reads the stage-1 similarity
FilterByThreshold_sim(cands, th) ==
    SelectSeq(cands,
              LAMBDA c : (IF c.reranked THEN c.original_score ELSE c.score)
                            >= th)

\* lines 217-221: step 3
FilterByThreshold(cands, th) == SelectSeq(cands, LAMBDA c : c.score >= th)

\* lines 154-227: retrieve_context_with_reranking
RetrieveWithReranking(store, q, k, ik, th, ceOk, pr, inj, sc) ==
    IF Blank(q)
    THEN [status |-> "returned", stage1 |-> <<>>, candidates |-> <<>>,
          results |-> <<>>, calls |-> {}]
    ELSE IF SearchRaises(store, ik)
    THEN [status |-> "raised", stage1 |-> <<>>, candidates |-> <<>>,
          results |-> <<>>, calls |-> {"encode", "search"}]
    ELSE LET stage1 == SearchWithScores(store, ik)
             cands == RerankStep(stage1, ceOk, pr, inj, sc)
         IN  IF stage1 = <<>>
             THEN [status |-> "returned", stage1 |-> <<>>,
                   candidates |-> <<>>, results |-> <<>>,
                   calls |-> {"encode", "search"}]
             ELSE [status |-> "returned", stage1 |-> stage1,
                   candidates |-> cands,
                   results |-> Take(FilterByThreshold(cands, th), k),
                   calls |-> {"encode", "search"} \cup
                             (IF ceOk \/ inj # "none"
                              THEN {"rerank"} ELSE {})]

\* retrieve_context: the texts of the top_k most similar chunks
RetrieveContext(store, q, k) ==
    IF Blank(q)
    THEN [status |-> "returned", stage1 |-> <<>>, candidates |-> <<>>,
          results |-> <<>>, calls |-> {}]
    ELSE IF SearchRaises(store, k)
    THEN [status |-> "raised", stage1 |-> <<>>, candidates |-> <<>>,
          results |-> <<>>, calls |-> {"encode", "search"}]
    ELSE [status |-> "returned", stage1 |-> <<>>, candidates |-> <<>>,
          results |-> VSSearch(store, k), calls |-> {"encode", "search"}]

\* ======================================================== rag/pipeline.py
DocIds == 1..NDocs

\* What the pipeline finds when it reaches a document's file:
\*   "missing"  os.path.exists(file_path) is false
\*   "notext"   extract_text returns ""
\*   "nochunks" create_chunks yields nothing (whitespace-only text)
\*   "ok"       the file yields ChunksPerDoc chunks
Kinds == {"missing", "notext", "nochunks", "ok"}

\* Embedder.dim of the loaded model
EmbedderDim == 384

\* list(create_chunks(text, max_chars=1000, overlap=200)) of document d
ChunksOf(d) == [i \in 1..ChunksPerDoc |-> <<d, i>>]

\* embedder.encode(chunks): one vector per chunk
Encode(chunks) ==
    [i \in 1..Len(chunks) |->
        IF (chunks[i][1] + chunks[i][2]) % 2 = 0 THEN 2 ELSE 9]

\* chunk_metadata of document d (chunk_index counts from 0)
ChunkMetadata(d, chunks) ==
    [i \in 1..Len(chunks) |-> [doc_id |-> d, chunk_index |-> i - 1]]

\* the metadata dict _build_vectorstore_from_db starts from; "cached" is a
\* key build_vectorstore_for_subject adds later
InitMetadata ==
    [from_cache |-> FALSE, docs_processed |-> 0, chunks_indexed |-> 0,
     failed_files |-> <<>>, cached |-> "unset"]

\* the metadata dict of the cache-reuse path
CacheMetadata(store) ==
    [from_cache |-> TRUE, docs_processed |-> 0,
     chunks_indexed |-> GetStats(store).total_texts,
     failed_files |-> <<>>, cached |-> "unset"]

\* A cache file: absent, or present and either readable or truncated
NoIndexFile == [exists |-> FALSE, ok |-> FALSE, index |-> <<>>]

NoDataFile ==
    [exists |-> FALSE, ok |-> FALSE, texts |-> <<>>, metadata |-> <<>>,
     dim |-> 0]

\* faiss.write_index(self.index, index_path)
WrittenIndex(store) == [exists |-> TRUE, ok |-> TRUE, index |-> store.index]

\* pickle.dump({'texts', 'metadata', 'dim'}, f)
WrittenData(store) ==
    [exists |-> TRUE, ok |-> TRUE, texts |-> store.texts,
     metadata |-> store.metadata, dim |-> store.dim]

\* a file that open(path, 'wb') truncated before the write failed
TruncatedIndex == [exists |-> TRUE, ok |-> FALSE, index |-> <<>>]

TruncatedData ==
    [exists |-> TRUE, ok |-> FALSE, texts |-> <<>>, metadata |-> <<>>,
     dim |-> 0]

\* VectorStore.load_from_disk: pickle.load and faiss.read_index raise on a
\* truncated file; nothing compares the two files with each other
LoadThrows(ifile, dfile) == ~dfile.ok \/ ~ifile.ok

\* a load that leaves the metadata list empty
LoadFromDiskStore_nometa(ifile, dfile) ==
    [dim |-> dfile.dim, index |-> ifile.index, texts |-> dfile.texts,
     metadata |-> <<>>]

LoadFromDiskStore(ifile, dfile) ==
    [dim |-> dfile.dim, index |-> ifile.index, texts |-> dfile.texts,
     metadata |-> dfile.metadata]

\* Where VectorStore.save_to_disk can stop:
\*   "ok"          both files written
\*   "fail_before" os.makedirs or faiss.write_index fails, nothing written
\*   "fail_index"  faiss.write_index fails part-way, index file truncated
\*   "fail_open"   index written, open(data_path, 'wb') fails
\*   "fail_dump"   index written, data file truncated, pickle.dump fails
SaveOutcomes == {"ok", "fail_before", "fail_index", "fail_open", "fail_dump"}

SavedIndex(outcome, store, ifile) ==
    CASE outcome = "fail_before" -> ifile
      [] outcome = "fail_index" -> TruncatedIndex
      [] OTHER -> WrittenIndex(store)

SavedData(outcome, store, dfile) ==
    CASE outcome = "ok" -> WrittenData(store)
      [] outcome = "fail_dump" -> TruncatedData
      [] OTHER -> dfile

\* number of cache files save_to_disk opened for writing
SaveWrites(outcome) ==
    CASE outcome = "fail_before" -> 0
      [] outcome = "fail_index" -> 1
      [] outcome = "fail_open" -> 1
      [] OTHER -> 2

\* pymysql Connection.close(): closing a closed connection raises
\* pymysql.err.Error("Already closed")
ConnCloseRaises(closed) == closed

\* all orders in which the SELECT can return a set of rows
Orders(S) ==
    {o \in [1..Cardinality(S) -> S] :
        \A i, j \in 1..Cardinality(S) : i # j => o[i] # o[j]}

\* ========================================================== llm/client.py
\* What one requests.post of call_openrouter comes back with:
\*   "429"           status 429
\*   "http_error"    another non-200 status, JSON body with an "error" key
\*   "http_other"    another non-200 status, body without "error" or not JSON
\*   "timeout"       requests.exceptions.Timeout
\*   "request_error" another requests.exceptions.RequestException
\*   "bad_json"      status 200, body is not JSON
\*   "api_error"     status 200, body has an "error" key
\*   "loading"       status 200, no "choices", "model" and status "loading"
\*   "no_choices"    status 200, no "choices", not loading
\*   "empty_choices" status 200, "choices" is []
\*   "no_message"    status 200, first choice has no "message"
\*   "empty_content" status 200, content missing or empty
\*   "ok"            status 200 with non-empty content
Outcomes ==
    {"429", "http_error", "http_other", "timeout", "request_error",
     "bad_json", "api_error", "loading", "no_choices", "empty_choices",
     "no_message", "empty_content", "ok"}

\* the content of the response of a given attempt
Content(n) == <<"content", n>>

\* lines 88-196: what the body of the try block does with a response:
\* "continue", "return", or the exception it raises
TryBody(outcome, n, max) ==
    CASE outcome = "429" -> "continue"
      [] outcome = "http_error" -> "ModelError"
      [] outcome = "http_other" ->
            IF n < max THEN "continue" ELSE "ModelError"
      [] outcome = "timeout" -> "Timeout"
      [] outcome = "request_error" -> "RequestException"
      [] outcome = "loading" -> "continue"
      [] outcome = "ok" -> "return"
      [] OTHER -> "ModelError"

\* lines 198-228: the except clauses.  Each of them goes on with the next
\* attempt while attempt < max_retries and raises otherwise.
ExceptClause(raised, n, max) ==
    CASE raised = "ModelError" ->
            IF n < max THEN "continue" ELSE "ModelError"
      [] raised \in {"Timeout", "RequestException"} ->
            IF n < max THEN "continue" ELSE "LLMClientError"
      [] OTHER -> raised

\* a loop that runs once more than max_retries
LoopEnds_late(n, max) == n > max + 1

\* line 87: for attempt in range(1, max_retries + 1)
LoopEnds(n, max) == n > max

\* ==================================================== routes/rag_routes.py
\* session ids; 0 stands for no session
Sessions == 1..NSessions

\* valid_statuses of update_task_status
ValidStatuses == {"none", "generating", "draft", "applied"}

\* The INSERT of create_rag_generated_task (assessment/generator.py
\* 406-424) names neither session_id nor generation_status: the new row
\* gets the defaults of the two columns.
InsertedTask == [session_id |-> 0, generation_status |-> "none"]

\* positions of the rows of a session
TasksOf(table, s) == {i \in 1..Len(table) : table[i].session_id = s}

\* lines 230-238: SELECT ... WHERE session_id = %s ORDER BY created_at DESC
\* LIMIT 1: the newest row of the session, 0 when there is none
ExistingTask(table, s) ==
    IF TasksOf(table, s) = {} THEN 0
    ELSE CHOOSE i \in TasksOf(table, s) : \A j \in TasksOf(table, s) : j <= i

\* What the request meets after the check of the existing task:
\*   "ok"          modules, context and LLM output are there
\*   "no_modules"  the module query is empty (404, line 310)
\*   "no_context"  retrieval gives nothing (404, line 339)
\*   "llm_error"   create_rag_generated_task raises before it writes (500)
Environments == {"ok", "no_modules", "no_context", "llm_error"}

\* generate_assessment, lines 228-440, for a request whose session exists:
\* the status code and whether create_rag_generated_task inserted a task
\* and a log row.  The call of create_rag_generated_task and the return
\* (lines 404-440) are in the body of `if notes:` (line 362); without
\* notes the view returns None, which Flask answers with 500.  mode is
\* read at line 70 and used only in a print.
GenerateOutcome(table, s, mode, notes, env) ==
    CASE ExistingTask(table, s) # 0
           /\ table[ExistingTask(table, s)].generation_status = "applied"
             -> [code |-> 409, inserts |-> FALSE]
      [] OTHER ->
           CASE env \in {"no_modules", "no_context"} ->
                   [code |-> 404, inserts |-> FALSE]
             [] notes = "" -> [code |-> 500, inserts |-> FALSE]
             [] env = "llm_error" -> [code |-> 500, inserts |-> FALSE]
             [] OTHER -> [code |-> 201, inserts |-> TRUE]

\* ========================================================= rag/chunker.py
\* A string is a sequence of runs.  A run of kind "w" is a piece of a word
\* of the input: id names the word, off is the offset of the run's first
\* character in it, cap says that the run starts with a capital letter and
\* dot that it ends with one of . ! ?  A run of kind "s" is len spaces and
\* a run of kind "n" is len newlines.
Word(id, n, cap, dot) ==
    [kind |-> "w", len |-> n, id |-> id, off |-> 0, cap |-> cap, dot |-> dot]

Spaces(n) ==
    [kind |-> "s", len |-> n, id |-> <<>>, off |-> 0, cap |-> FALSE,
     dot |-> FALSE]

Newlines(n) ==
    [kind |-> "n", len |-> n, id |-> <<>>, off |-> 0, cap |-> FALSE,
     dot |-> FALSE]

\* str.isspace() of the characters of a run
IsSpace(r) == r.kind # "w"

\* len(s)
RECURSIVE StrLen(_)
StrLen(s) == IF s = <<>> THEN 0 ELSE s[1].len + StrLen(Tail(s))

\* s.lstrip(), s.rstrip(), s.strip()
RECURSIVE LStrip(_)
LStrip(s) ==
    IF s = <<>> THEN <<>>
    ELSE IF IsSpace(s[1]) THEN LStrip(Tail(s)) ELSE s

RECURSIVE RStrip(_)
RStrip(s) ==
    IF s = <<>> THEN <<>>
    ELSE IF IsSpace(s[Len(s)]) THEN RStrip(SubSeq(s, 1, Len(s) - 1)) ELSE s

Strip(s) == RStrip(LStrip(s))

\* the last n characters of s, for n >= 1
RECURSIVE LastChars(_, _)
LastChars(s, n) ==
    IF n <= 0 \/ s = <<>> THEN <<>>
    ELSE LET r == s[Len(s)]
         IN  IF r.len <= n
             THEN LastChars(SubSeq(s, 1, Len(s) - 1), n - r.len) \o <<r>>
             ELSE <<[r EXCEPT !.len = n, !.off = r.off + r.len - n,
                              !.cap = FALSE]>>

\* the slice s[-n:] for n >= 0: s[-0:] is s[0:], the whole string
SliceFromMinus(s, n) == IF n = 0 THEN s ELSE LastChars(s, n)

\* sep.join(strs)
RECURSIVE Join(_, _)
Join(strs, sep) ==
    IF strs = <<>> THEN <<>>
    ELSE IF Len(strs) = 1 THEN strs[1]
    ELSE strs[1] \o sep \o Join(Tail(strs), sep)

\* text.split('\n\n'): cur is the piece being read.  Two newlines end the
\* piece; what is left of a longer run of newlines starts the next piece.
RECURSIVE SplitParagraphs(_, _)
SplitParagraphs(s, cur) ==
    IF s = <<>> THEN <<cur>>
    ELSE IF s[1].kind = "n" /\ s[1].len >= 2
    THEN <<cur>> \o
         SplitParagraphs((IF s[1].len > 2
                          THEN <<Newlines(s[1].len - 2)>> ELSE <<>>)
                            \o Tail(s), <<>>)
    ELSE SplitParagraphs(Tail(s), Append(cur, s[1]))

\* re.split(r'(?<=[.!?])\s+(?=[A-Z])', text): a block of whitespace that
\* follows . ! or ? and precedes a capital letter ends a piece and is dropped
RECURSIVE RegexSplit(_, _)
RegexSplit(s, cur) ==
    IF s = <<>> THEN <<cur>>
    ELSE IF /\ IsSpace(s[1])
            /\ cur # <<>>
            /\ cur[Len(cur)].kind = "w"
            /\ cur[Len(cur)].dot
            /\ LStrip(s) # <<>>
            /\ LStrip(s)[1].cap
    THEN <<cur>> \o RegexSplit(LStrip(s), <<>>)
    ELSE RegexSplit(Tail(s), Append(cur, s[1]))

\* the length above which a text without sentence boundary is cut by words
FallbackChars == 1500

\* the length at which a group of words is closed
WordGroupChars == 1000

\* text.split(): the words of a text
Words(s) == SelectSeq(s, LAMBDA r : ~IsSpace(r))

\* lines 107-123: groups of words, each closed once it counts at least
\* WordGroupChars characters, every word counted with one space
RECURSIVE GroupWords(_, _, _)
GroupWords(words, current, current_len) ==
    IF words = <<>>
    THEN IF current = <<>> THEN <<>> ELSE <<Join(current, <<Spaces(1)>>)>>
    ELSE LET grown == Append(current, <<words[1]>>)
             n == current_len + words[1].len + 1
         IN  IF n >= WordGroupChars
             THEN <<Join(grown, <<Spaces(1)>>)>>
                    \o GroupWords(Tail(words), <<>>, 0)
             ELSE GroupWords(Tail(words), grown, n)

\* [s.strip() for s in sentences if s.strip()]
StripAll(strs) ==
    SelectSeq([i \in 1..Len(strs) |-> Strip(strs[i])], LAMBDA x : x # <<>>)

\* _split_into_sentences
SplitIntoSentences(text) ==
    LET sentences == RegexSplit(text, <<>>)
    IN  IF Len(sentences) = 1 /\ StrLen(text) > FallbackChars
        THEN GroupWords(Words(text), <<>>, 0)
        ELSE StripAll(sentences)

\* lines 46-47, 66-67, 84-85: the chunk yielded for a buffer.  text is
\* what the caller gets; prefix and body are kept for the claims, and
\* single says that the body is one item of _split_into_sentences.
Flushed(previous_chunk_tail, body, single) ==
    [text |-> Strip(previous_chunk_tail \o body),
     prefix |-> previous_chunk_tail, body |-> body, single |-> single]

\* lines 50-53 and 69-72: the tail kept for the next chunk
NextTail(body, overlap) ==
    IF StrLen(body) > overlap THEN SliceFromMinus(body, overlap) ELSE body

\* lines 61-73: the loop over the sentences of a long paragraph; st holds
\* sentence_chunk, previous_chunk_tail, the chunks yielded so far and
\* whether sentence_chunk is one sentence
RECURSIVE SentenceLoop(_, _, _, _)
SentenceLoop(sentences, st, max_chars, overlap) ==
    IF sentences = <<>> THEN st
    ELSE LET sent == sentences[1]
             rest == Tail(sentences)
         IN  IF StrLen(st.sentence_chunk) + StrLen(sent) + 1 <= max_chars
             THEN SentenceLoop(rest,
                    [st EXCEPT
                       !.sentence_chunk =
                           IF @ # <<>> THEN @ \o <<Spaces(1)>> \o sent
                           ELSE sent,
                       !.single = (st.sentence_chunk = <<>>)],
                    max_chars, overlap)
             ELSE IF st.sentence_chunk # <<>>
             THEN SentenceLoop(rest,
                    [sentence_chunk |-> sent,
                     single |-> TRUE,
                     tail |-> NextTail(st.sentence_chunk, overlap),
                     out |-> Append(st.out,
                                    Flushed(st.tail, st.sentence_chunk,
                                            st.single))],
                    max_chars, overlap)
             ELSE SentenceLoop(rest,
                    [st EXCEPT !.sentence_chunk = sent, !.single = TRUE],
                    max_chars, overlap)

\* a loop end that forgets the sentences still in sentence_chunk
AfterSentences_drop(st, current_chunk) ==
    [current_chunk |-> current_chunk, single |-> FALSE, tail |-> st.tail,
     out |-> st.out]

\* lines 76-77: what is left in sentence_chunk becomes current_chunk
AfterSentences(st, current_chunk) ==
    [current_chunk |-> IF st.sentence_chunk # <<>>
                       THEN st.sentence_chunk ELSE current_chunk,
     single |-> st.sentence_chunk # <<>> /\ st.single,
     tail |-> st.tail, out |-> st.out]

\* lines 44-54: the buffer is yielded when the paragraph does not fit
FlushCurrent(st, overlap) ==
    IF st.current_chunk # <<>>
    THEN [current_chunk |-> <<>>, single |-> FALSE,
          tail |-> NextTail(st.current_chunk, overlap),
          out |-> Append(st.out,
                         Flushed(st.tail, st.current_chunk, st.single))]
    ELSE st

\* lines 31-80: the loop over the paragraphs; st holds current_chunk,
\* previous_chunk_tail and the chunks yielded so far
RECURSIVE ParagraphLoop(_, _, _, _)
ParagraphLoop(paragraphs, st, max_chars, overlap) ==
    IF paragraphs = <<>> THEN st
    ELSE LET para == Strip(paragraphs[1])
             rest == Tail(paragraphs)
             flushed == FlushCurrent(st, overlap)
         IN  IF para = <<>>
             THEN ParagraphLoop(rest, st, max_chars, overlap)
             ELSE IF StrLen(st.current_chunk) + StrLen(para) + 2 <= max_chars
             THEN ParagraphLoop(rest,
                    [st EXCEPT
                       !.current_chunk =
                           IF @ # <<>> THEN @ \o <<Newlines(2)>> \o para
                           ELSE para,
                       !.single = FALSE],
                    max_chars, overlap)
             ELSE IF StrLen(para) > max_chars
             THEN ParagraphLoop(rest,
                    AfterSentences(
                        SentenceLoop(SplitIntoSentences(para),
                                     [sentence_chunk |-> <<>>,
                                      single |-> FALSE,
                                      tail |-> flushed.tail,
                                      out |-> flushed.out],
                                     max_chars, overlap),
                        flushed.current_chunk),
                    max_chars, overlap)
             ELSE ParagraphLoop(rest,
                    [flushed EXCEPT !.current_chunk = para, !.single = FALSE],
                    max_chars, overlap)

\* list(create_chunks(text, max_chars, overlap))
CreateChunks(text, max_chars, overlap) ==
    IF Strip(text) = <<>> THEN <<>>
    ELSE LET st == ParagraphLoop(SplitParagraphs(text, <<>>),
                                 [current_chunk |-> <<>>, single |-> FALSE,
                                  tail |-> <<>>, out |-> <<>>],
                                 max_chars, overlap)
         IN  IF st.current_chunk # <<>>
             THEN Append(st.out, Flushed(st.tail, st.current_chunk, st.single))
             ELSE st.out

\* ---- the texts create_chunks is called on
\* every word has WordLen characters
WordLen == 199

\* a sentence: its number of words and whether it starts with a capital;
\* its last word ends with a full stop
Sent(n) == [words |-> n, cap |-> TRUE]

\* a paragraph is a sequence of sentences
ParaShapes ==
    {<<Sent(1)>>, <<Sent(3)>>, <<Sent(8)>>, <<Sent(1), Sent(1)>>,
     <<Sent(3), Sent(3)>>, <<Sent(3), Sent(8)>>,
     <<Sent(3), [words |-> 8, cap |-> FALSE]>>,
     <<Sent(1), Sent(3), Sent(3)>>}

TextShapes == SeqsUpTo(ParaShapes, MaxParas)

\* "plain": one space between sentences, a blank line between paragraphs;
\* "padded": two spaces, three newlines, and whitespace around the text
Styles == {"plain", "padded"}

MaxCharsVals == {500, 1000, 1500}

OverlapVals == {0, 200, 300}

SentenceText(p, i, sh) ==
    Join([w \in 1..sh.words |->
             <<Word(<<p, i, w>>, WordLen, w = 1 /\ sh.cap, w = sh.words)>>],
         <<Spaces(1)>>)

ParagraphText(p, shape, style) ==
    Join([i \in 1..Len(shape) |-> SentenceText(p, i, shape[i])],
         <<Spaces(IF style = "padded" THEN 2 ELSE 1)>>)

TextOf(shape, style) ==
    LET inner == Join([p \in 1..Len(shape) |->
                          ParagraphText(p, shape[p], style)],
                      <<Newlines(IF style = "padded" THEN 3 ELSE 2)>>)
    IN  IF style = "padded"
        THEN <<Spaces(2)>> \o inner \o <<Newlines(1)>>
        ELSE inner

\* ======================================================== rag/embedder.py
\* the default of the model_name parameter (line 24)
DefaultModel == "sentence-transformers/all-MiniLM-L6-v2"

\* the model the except clause loads (line 48)
FallbackModel == "paraphrase-MiniLM-L6-v2"

\* model_name arguments callers pass
ModelNames == {DefaultModel, "sentence-transformers/all-mpnet-base-v2"}

\* get_sentence_embedding_dimension() of a loaded model
ModelDim(name) == EmbedderDim

VARIABLES
    vs,           \* SpecStore: the VectorStore under test
    found,        \* the last search_with_scores call on vs and its outcome
    loaded,       \* the store load_from_disk gave right after save_to_disk
    rows,         \* rag_source_documents: ids of the subject's rows
    is_indexed,   \* rag_source_documents.is_indexed of each row
    fileKind,     \* what the pipeline finds at each row's file_path
    indexFile,    \* cache/vectorstores/subject_<id>.index
    dataFile,     \* cache/vectorstores/subject_<id>.pkl
    pc,           \* position of the running build_vectorstore_for_subject
    use_cache,    \* its use_cache argument
    conn_closed,  \* whether its connection (line 117) has been closed
    docs,         \* cur.fetchall() of _build_vectorstore_from_db
    pos,          \* index in docs of the document the loop is at
    vectorstore,  \* the VectorStore being built
    metadata,     \* the metadata dict being built
    result,       \* what the call gave its caller
    path,         \* branch taken at line 116: "valid", "stale", "nocache"
    load_threw,   \* load_from_disk raised in this call
    save_outcome, \* where save_to_disk stopped in this call
    extracted,    \* documents extract_text was called on in this call
    encoded,      \* documents embedder.encode was called on in this call
    at_start,     \* is_indexed and the cache files when this call began
    writes,       \* cache files this call opened for writing
    rpc,          \* position of the retrieve_context_with_reranking call
    query,        \* its query argument
    top_k,        \* its top_k argument
    initial_k,    \* its initial_k argument
    score_threshold, \* its score_threshold argument
    reranker,     \* its reranker argument: "none" or how predict behaves
    cross_encoder,   \* the global _cross_encoder_reranker
    ce_predict,   \* how the cross-encoder's model.predict behaves
    pair_scores,  \* the reranking model's score of each (query, chunk) pair
    retrieved,    \* what the call computed and returned
    e_instance,   \* Embedder._instance: 0 is None, else the object's id
    e_model,      \* Embedder._model: "None" or the name of the loaded model
    e_dim,        \* Embedder._dim: 0 is None
    e_objects,    \* number of Embedder objects allocated so far
    epc,          \* position of each caller inside Embedder.__new__
    e_arg,        \* the model_name argument of each caller
    e_calls,      \* constructions started so far
    e_loads,      \* SentenceTransformer(...) calls that returned a model
    e_returned,   \* what each finished construction returned
    e_raised,     \* number of constructions that raised
    cpc,          \* position of the create_chunks call
    c_text,       \* its text argument
    c_max_chars,  \* its max_chars argument
    c_overlap,    \* its overlap argument
    c_chunks,     \* list(create_chunks(...)), the chunks in the order yielded
    requests,     \* SpecRace: the concurrent build_vectorstore_for_subject calls
    wrote,        \* which request wrote each cache file last (0: none)
    lpc,          \* position of the call_openrouter call
    max_retries,  \* its max_retries argument
    attempt,      \* the loop variable of line 87
    responses,    \* what each requests.post of this call came back with
    llm_result,   \* what the call returned or raised
    tasks,        \* assessment_task: the rows in the order of created_at
    logs,         \* number of rows of ai_generation_log
    last          \* the last request served, its response, the tables before

storeVars == <<vs, found, loaded>>

dbVars == <<rows, is_indexed, fileKind>>

diskVars == <<indexFile, dataFile>>

callVars == <<pc, use_cache, conn_closed, docs, pos, vectorstore, metadata,
              result, path>>

histVars == <<load_threw, save_outcome, extracted, encoded, at_start, writes>>

retrVars == <<rpc, query, top_k, initial_k, score_threshold, reranker,
              cross_encoder, ce_predict, pair_scores, retrieved>>

embVars == <<e_instance, e_model, e_dim, e_objects, epc, e_arg, e_calls,
             e_loads, e_returned, e_raised>>

chunkVars == <<cpc, c_text, c_max_chars, c_overlap, c_chunks>>

raceVars == <<requests, wrote>>

clientVars == <<lpc, max_retries, attempt, responses, llm_result>>

routeVars == <<tasks, logs, last>>

moreVars == <<raceVars, clientVars, routeVars>>

extVars == <<embVars, chunkVars, moreVars>>

vars == <<storeVars, dbVars, diskVars, callVars, histVars, retrVars, extVars>>

\* callers of Embedder()
Threads == 1..NThreads

\* the class attributes of lines 20-22, and no caller inside __new__
EmbFresh ==
    /\ e_instance = 0
    /\ e_model = "None"
    /\ e_dim = 0
    /\ e_objects = 0
    /\ epc = [t \in Threads |-> "idle"]
    /\ e_arg = [t \in Threads |-> DefaultModel]
    /\ e_calls = 0
    /\ e_loads = 0
    /\ e_returned = {}
    /\ e_raised = 0

NoSearch == [called |-> FALSE, k |-> 0, status |-> "none", results |-> <<>>]

NotLoaded == [present |-> FALSE, store |-> NewVectorStore(0)]

\* no search and no reload of the store under test yet
ProbeIdle == found = NoSearch /\ loaded = NotLoaded

\* no create_chunks call
ChunkIdle ==
    /\ cpc = "idle"
    /\ c_text = <<>>
    /\ c_max_chars = 0
    /\ c_overlap = 0
    /\ c_chunks = <<>>

\* the two requests of SpecRace
Requests == {1, 2}

\* a request that has not started: its position, the rows it fetched, the
\* row its loop is at and the store it is building
NoRequest ==
    [pc |-> "idle", docs |-> <<>>, pos |-> 1,
     vectorstore |-> NewVectorStore(0), path |-> "none"]

RaceIdle ==
    /\ requests = [r \in Requests |-> NoRequest]
    /\ wrote = [index |-> 0, data |-> 0]

NoLLMResult == [status |-> "none", value |-> <<>>]

\* no call_openrouter call
ClientIdle ==
    /\ lpc = "idle"
    /\ max_retries = 0
    /\ attempt = 1
    /\ responses = <<>>
    /\ llm_result = NoLLMResult

NoRequestYet ==
    [kind |-> "none", session_id |-> 0, mode |-> "normal", notes |-> "",
     code |-> 0, tasks |-> <<>>, logs |-> 0]

\* no row in assessment_task and ai_generation_log, no request served
RoutesIdle ==
    /\ tasks = <<>>
    /\ logs = 0
    /\ last = NoRequestYet

MoreIdle == RaceIdle /\ ClientIdle /\ RoutesIdle

ExtIdle == EmbFresh /\ ProbeIdle /\ ChunkIdle /\ MoreIdle

NoRetrieval ==
    [status |-> "none", stage1 |-> <<>>, candidates |-> <<>>,
     results |-> <<>>, calls |-> {}]

\* no retrieval call in progress
RetrIdle ==
    /\ rpc = "idle"
    /\ query = ""
    /\ top_k = 1
    /\ initial_k = 1
    /\ score_threshold = 0
    /\ reranker = "none"
    /\ cross_encoder = "None"
    /\ ce_predict = "ok"
    /\ pair_scores = <<>>
    /\ retrieved = NoRetrieval

NoSnapshot ==
    [is_indexed |-> [d \in DocIds |-> FALSE], indexFile |-> NoIndexFile,
     dataFile |-> NoDataFile]

NoResult ==
    [status |-> "none", store |-> NewVectorStore(0), metadata |-> InitMetadata]

\* the state of the pipeline between two calls
CacheIdle ==
    /\ pc = "idle"
    /\ use_cache = TRUE
    /\ conn_closed = FALSE
    /\ docs = <<>>
    /\ pos = 1
    /\ vectorstore = NewVectorStore(0)
    /\ metadata = InitMetadata
    /\ result = NoResult
    /\ path = "none"
    /\ load_threw = FALSE
    /\ save_outcome = "none"
    /\ extracted = {}
    /\ encoded = {}
    /\ at_start = NoSnapshot
    /\ writes = 0

\* no row, no cache file
CacheEmpty ==
    /\ rows = {}
    /\ is_indexed = [d \in DocIds |-> FALSE]
    /\ fileKind = [d \in DocIds |-> "ok"]
    /\ indexFile = NoIndexFile
    /\ dataFile = NoDataFile

\* ------------------------------------------------------------- SpecStore
InitStore ==
    vs = NewVectorStore(1) /\ CacheEmpty /\ CacheIdle /\ RetrIdle /\ ExtIdle

Add(embeddings, texts, meta) ==
    LET after == VSAdd(vs, embeddings, texts, meta)
    IN  /\ Len(after.index) <= MaxStore
        /\ Len(after.texts) <= MaxStore
        /\ Len(after.metadata) <= MaxStore
        /\ vs' = after
        /\ UNCHANGED <<found, loaded>>
        /\ UNCHANGED <<dbVars, diskVars, callVars, histVars, retrVars, extVars>>

NextStore ==
    \E e \in EmbArgs, t \in TextArgs, m \in MetaArgs : Add(e, t, m)

SpecStore == InitStore /\ [][NextStore]_vars

\* ------------------------------------------------------------- SpecCache
\* POST /upload-module and /register-module: a new row with is_indexed FALSE.
\* Requests run one at a time, so a row appears between two builds.
UploadModule(d, k) ==
    /\ pc = "idle"
    /\ d \notin rows
    /\ rows' = rows \cup {d}
    /\ is_indexed' = [is_indexed EXCEPT ![d] = FALSE]
    /\ fileKind' = [fileKind EXCEPT ![d] = k]
    /\ UNCHANGED <<extVars, retrVars, storeVars, diskVars, callVars, histVars>>

\* mutant of SelectUnindexed: the SELECT without `AND is_indexed = FALSE`
SelectUnindexed_all == rows

\* SELECT ... WHERE subject_id = %s AND is_indexed = FALSE
SelectUnindexed == {d \in rows : ~is_indexed[d]}

\* line 116: use_cache and both cache files exist
CacheFilesUsable(uc) == uc /\ indexFile.exists /\ dataFile.exists

\* mutant of Branch: the test of new_docs_count inverted
Branch_inverted(uc) ==
    IF CacheFilesUsable(uc)
    THEN IF Cardinality(SelectUnindexed) = 0 THEN "stale" ELSE "valid"
    ELSE "nocache"

\* lines 116-129: the branch build_vectorstore_for_subject takes
Branch(uc) ==
    IF CacheFilesUsable(uc)
    THEN IF Cardinality(SelectUnindexed) = 0 THEN "valid" ELSE "stale"
    ELSE "nocache"

\* build_vectorstore_for_subject, lines 107-132 and 146: the cache check.
\* On the "valid" branch the connection is closed at line 132, on the
\* "stale" branch at line 146; without usable files none is opened.
BuildStart(uc) ==
    /\ pc = "idle"
    /\ use_cache' = uc
    /\ path' = Branch(uc)
    /\ conn_closed' = (Branch(uc) \in {"valid", "stale"})
    /\ pc' = IF Branch(uc) = "valid" THEN "load" ELSE "rebuild"
    /\ at_start' = [is_indexed |-> is_indexed, indexFile |-> indexFile,
                     dataFile |-> dataFile]
    /\ UNCHANGED <<docs, pos, vectorstore, metadata, result>>
    /\ UNCHANGED <<load_threw, save_outcome, extracted, encoded, writes>>
    /\ UNCHANGED <<extVars, retrVars, storeVars, dbVars, diskVars>>

\* lines 134-146 when load_from_disk returns: the cached store is returned
LoadFromDisk ==
    /\ pc = "load"
    /\ ~LoadThrows(indexFile, dataFile)
    /\ LET store == LoadFromDiskStore(indexFile, dataFile)
       IN  result' = [status |-> "returned", store |-> store,
                      metadata |-> CacheMetadata(store)]
    /\ pc' = "done"
    /\ UNCHANGED <<use_cache, conn_closed, docs, pos, vectorstore, metadata,
                   path>>
    /\ UNCHANGED <<extVars, retrVars, storeVars, dbVars, diskVars, histVars>>

\* lines 134-146 when load_from_disk raises: the except clause logs, the
\* with block ends, and line 146 closes the connection that line 132 closed
LoadFromDiskFails ==
    /\ pc = "load"
    /\ LoadThrows(indexFile, dataFile)
    /\ load_threw' = TRUE
    /\ IF ConnCloseRaises(conn_closed)
       THEN /\ result' = [NoResult EXCEPT !.status = "raised"]
            /\ pc' = "done"
       ELSE /\ result' = result
            /\ pc' = "rebuild"
    /\ UNCHANGED <<use_cache, conn_closed, docs, pos, vectorstore, metadata,
                   path>>
    /\ UNCHANGED <<save_outcome, extracted, encoded, at_start, writes>>
    /\ UNCHANGED <<extVars, retrVars, storeVars, dbVars, diskVars>>

\* _build_vectorstore_from_db, lines 175-201: a fresh store, the SELECT of
\* the un-indexed rows, and the early return when there are none
SelectDocs(order) ==
    /\ pc = "rebuild"
    /\ order \in Orders(SelectUnindexed)
    /\ vectorstore' = NewVectorStore(EmbedderDim)
    /\ metadata' = InitMetadata
    /\ docs' = order
    /\ pos' = 1
    /\ pc' = IF order = <<>> THEN "save" ELSE "loop"
    /\ UNCHANGED <<use_cache, conn_closed, result, path>>
    /\ UNCHANGED <<extVars, retrVars, storeVars, dbVars, diskVars, histVars>>

\* whether the loop body reaches extract_text for a document (line 208)
ReachesExtract(k) == k # "missing"

\* whether the loop body reaches embedder.encode (lines 217 and 223)
ReachesEncode(k) == k = "ok"

\* lines 244-250: UPDATE rag_source_documents SET is_indexed = TRUE; commit
MarkIndexed(flags, d) == [flags EXCEPT ![d] = TRUE]

\* mutant of AfterIteration: `break` in place of `continue`
AfterIteration_break(k, isLast) ==
    IF isLast \/ k # "ok" THEN "save" ELSE "loop"

\* lines 203 and 211, 219, 225, 251: `continue` and the end of the body
\* both go on to the next document, and the loop ends after the last one
AfterIteration(k, isLast) == IF isLast THEN "save" ELSE "loop"

\* lines 203-251: one iteration of the loop that does not raise.  A missing
\* file, an empty text or an empty chunk list appends the file name to
\* failed_files and continues; otherwise the chunks are embedded and added,
\* the counters are raised and the row is marked indexed and committed.
\* After the last document the function returns (line 260).
ProcessDoc ==
    /\ pc = "loop"
    /\ LET d == docs[pos]
           k == fileKind[d]
           chunks == ChunksOf(d)
       IN  /\ extracted' = IF ReachesExtract(k) THEN extracted \cup {d}
                           ELSE extracted
           /\ IF ReachesEncode(k)
              THEN /\ encoded' = encoded \cup {d}
                   /\ vectorstore' =
                        VSAdd(vectorstore,
                              [shape |-> "2d", rows |-> Encode(chunks)],
                              chunks,
                              [given |-> TRUE,
                               items |-> ChunkMetadata(d, chunks)])
                   /\ metadata' =
                        [metadata EXCEPT
                           !.docs_processed = @ + 1,
                           !.chunks_indexed = @ + Len(chunks)]
                   /\ is_indexed' = MarkIndexed(is_indexed, d)
              ELSE /\ metadata' =
                        [metadata EXCEPT !.failed_files = Append(@, d)]
                   /\ UNCHANGED <<encoded, vectorstore, is_indexed>>
    /\ pos' = pos + 1
    /\ pc' = AfterIteration(fileKind[docs[pos]], pos = Len(docs))
    /\ UNCHANGED <<use_cache, conn_closed, docs, result, path>>
    /\ UNCHANGED <<load_threw, save_outcome, at_start, writes>>
    /\ UNCHANGED <<extVars, retrVars, storeVars, rows, fileKind, diskVars>>

\* lines 237 and 253-258: embedder.encode raises; the except clause rolls
\* back (every earlier row was committed already) and re-raises
ProcessDocEncodeFails ==
    /\ pc = "loop"
    /\ ReachesEncode(fileKind[docs[pos]])
    /\ extracted' = extracted \cup {docs[pos]}
    /\ encoded' = encoded \cup {docs[pos]}
    /\ result' = [NoResult EXCEPT !.status = "raised"]
    /\ pc' = "done"
    /\ UNCHANGED <<use_cache, conn_closed, docs, pos, vectorstore, metadata,
                   path>>
    /\ UNCHANGED <<load_threw, save_outcome, at_start, writes>>
    /\ UNCHANGED <<extVars, retrVars, storeVars, dbVars, diskVars>>

\* mutant of CachedFlag: cached set to True before the save is attempted
CachedFlag_early(outcome) == "true"

\* lines 153-158: metadata["cached"] after the save attempt
CachedFlag(outcome) == IF outcome = "ok" THEN "true" ELSE "false"

\* lines 152-160: save_to_disk in a try block, then the return
SaveToDisk(outcome) ==
    /\ pc = "save"
    /\ indexFile' = SavedIndex(outcome, vectorstore, indexFile)
    /\ dataFile' = SavedData(outcome, vectorstore, dataFile)
    /\ writes' = writes + SaveWrites(outcome)
    /\ save_outcome' = outcome
    /\ metadata' = [metadata EXCEPT !.cached = CachedFlag(outcome)]
    /\ result' = [status |-> "returned", store |-> vectorstore,
                  metadata |-> metadata']
    /\ pc' = "done"
    /\ UNCHANGED <<use_cache, conn_closed, docs, pos, vectorstore, path>>
    /\ UNCHANGED <<load_threw, extracted, encoded, at_start>>
    /\ UNCHANGED <<extVars, retrVars, storeVars, dbVars>>

\* the caller has the result; the next request starts from a clean frame
Finish ==
    /\ pc = "done"
    /\ pc' = "idle"
    /\ use_cache' = TRUE
    /\ conn_closed' = FALSE
    /\ docs' = <<>>
    /\ pos' = 1
    /\ vectorstore' = NewVectorStore(0)
    /\ metadata' = InitMetadata
    /\ result' = NoResult
    /\ path' = "none"
    /\ load_threw' = FALSE
    /\ save_outcome' = "none"
    /\ extracted' = {}
    /\ encoded' = {}
    /\ at_start' = NoSnapshot
    /\ writes' = 0
    /\ UNCHANGED <<extVars, retrVars, storeVars, dbVars, diskVars>>

InitCache ==
    vs = NewVectorStore(1) /\ CacheEmpty /\ CacheIdle /\ RetrIdle /\ ExtIdle

NextCache ==
    \/ \E d \in DocIds, k \in Kinds : UploadModule(d, k)
    \/ \E uc \in BOOLEAN : BuildStart(uc)
    \/ LoadFromDisk
    \/ LoadFromDiskFails
    \/ \E order \in SeqsUpTo(DocIds, NDocs) : SelectDocs(order)
    \/ ProcessDoc
    \/ ProcessDocEncodeFails
    \/ \E outcome \in SaveOutcomes : SaveToDisk(outcome)
    \/ Finish

SpecCache == InitCache /\ [][NextCache]_vars

\* C1: after any sequence of add calls, whatever the argument lengths,
\* len(texts) = len(metadata) = index.ntotal.
C1_Aligned ==
    /\ Len(vs.texts) = Len(vs.metadata)
    /\ Len(vs.metadata) = Len(vs.index)

\* ---------------------------------------------------------- SpecRetrieve
Queries == {"", " ", "loops"}

TopKs == {1, 2}

InitialKs == {2, MaxStore}

Thresholds == {3, 6}

RerankVals == {1, 7}

\* a store of n chunks, built by one add call
StoreOf(sims) ==
    VSAdd(NewVectorStore(EmbedderDim),
          [shape |-> "2d", rows |-> sims],
          [i \in 1..Len(sims) |-> <<0, i>>],
          [given |-> TRUE,
           items |-> [i \in 1..Len(sims) |->
                         [doc_id |-> 0, chunk_index |-> i - 1]]])

InitRetrieve ==
    /\ vs \in {StoreOf(sims) : sims \in SeqsUpTo(VecVals, MaxStore)}
    /\ CacheEmpty
    /\ CacheIdle
    /\ rpc = "ready"
    /\ query \in Queries
    /\ top_k \in TopKs
    /\ initial_k \in InitialKs
    /\ score_threshold \in Thresholds
    /\ reranker \in {"none", "ok", "short", "throws"}
    /\ cross_encoder \in {"None", "loaded", "unloaded"}
    /\ ce_predict \in {"ok", "throws"}
    /\ pair_scores \in [1..Len(vs.texts) -> RerankVals]
    /\ retrieved = NoRetrieval
    /\ ExtIdle

\* whether the call gets as far as get_cross_encoder_reranker() (line 167)
ReachesRerank == ~Blank(query) /\ SearchHits(vs, initial_k) # <<>>

\* get_cross_encoder_reranker(): the global is built once; whether its
\* model loads (is_loaded) is decided then and kept
GetCrossEncoderReranker(current, loads) ==
    IF current = "None"
    THEN IF loads THEN "loaded" ELSE "unloaded"
    ELSE current

\* one call of retrieve_context_with_reranking
Retrieve(loads) ==
    /\ rpc = "ready"
    /\ (cross_encoder # "None" \/ ~ReachesRerank) => loads
    /\ cross_encoder' = IF ReachesRerank
                        THEN GetCrossEncoderReranker(cross_encoder, loads)
                        ELSE cross_encoder
    /\ retrieved' = RetrieveWithReranking(vs, query, top_k, initial_k,
                                          score_threshold,
                                          cross_encoder' = "loaded",
                                          ce_predict, reranker, pair_scores)
    /\ rpc' = "done"
    /\ UNCHANGED <<query, top_k, initial_k, score_threshold, reranker,
                   ce_predict, pair_scores>>
    /\ UNCHANGED <<storeVars, dbVars, diskVars, callVars, histVars, extVars>>

\* one call of retrieve_context
RetrieveBasic ==
    /\ rpc = "ready"
    /\ retrieved' = RetrieveContext(vs, query, top_k)
    /\ rpc' = "done_basic"
    /\ UNCHANGED <<query, top_k, initial_k, score_threshold, reranker,
                   cross_encoder, ce_predict, pair_scores>>
    /\ UNCHANGED <<storeVars, dbVars, diskVars, callVars, histVars, extVars>>

NextRetrieve ==
    \/ \E loads \in BOOLEAN : Retrieve(loads)
    \/ RetrieveBasic

SpecRetrieve == InitRetrieve /\ [][NextRetrieve]_vars

\* ------------------------------------------------------------- SpecProbe
\* top_k arguments of the probed searches
SearchKs == {1, MaxArg, 2 * MaxArg + 1}

\* the stores probed: a store built by one well-formed add call, followed
\* by one add call of at most one metadata item with any vectors and
\* texts, which leaves the three collections aligned or not
ProbeStores ==
    {VSAdd(StoreOf(sims), e, t, m) :
        sims \in SeqsUpTo(VecVals, MaxArg),
        e \in EmbArgs,
        t \in TextArgs,
        m \in {a \in MetaArgs : Len(a.items) <= 1}}

InitProbe ==
    /\ vs \in ProbeStores
    /\ CacheEmpty
    /\ CacheIdle
    /\ RetrIdle
    /\ ExtIdle

\* vs.search_with_scores(q, k) with the probe query
Search(k) ==
    /\ found' = [called |-> TRUE, k |-> k] @@ SearchOutcome(vs, k)
    /\ UNCHANGED <<vs, loaded>>
    /\ UNCHANGED <<dbVars, diskVars, callVars, histVars, retrVars, extVars>>

\* vs.save_to_disk(index_path, data_path) that writes both files, followed
\* by VectorStore.load_from_disk(index_path, data_path)
SaveThenLoad ==
    /\ indexFile' = WrittenIndex(vs)
    /\ dataFile' = WrittenData(vs)
    /\ loaded' = [present |-> TRUE,
                  store |-> LoadFromDiskStore(indexFile', dataFile')]
    /\ UNCHANGED <<vs, found>>
    /\ UNCHANGED <<dbVars, callVars, histVars, retrVars, extVars>>

NextProbe ==
    \/ \E k \in SearchKs : Search(k)
    \/ SaveThenLoad

SpecProbe == InitProbe /\ [][NextProbe]_vars

\* ---------------------------------------------------------- SpecEmbedder
\* A caller enters Embedder(model_name).  Constructions of one process run
\* one after the other: a caller enters when no other is inside __new__.
Construct(t, name) ==
    /\ \A u \in Threads : epc[u] = "idle"
    /\ e_calls < MaxConstructions
    /\ e_calls' = e_calls + 1
    /\ epc' = [epc EXCEPT ![t] = "check"]
    /\ e_arg' = [e_arg EXCEPT ![t] = name]
    /\ UNCHANGED <<e_instance, e_model, e_dim, e_objects, e_loads,
                   e_returned, e_raised>>
    /\ UNCHANGED <<storeVars, dbVars, diskVars, callVars, histVars, retrVars,
                   chunkVars, moreVars>>

\* the step a caller goes to after `if cls._instance is None` (line 25)
AfterCheck_reload(instance, name, model) ==
    IF instance = 0 \/ name # model THEN "try" ELSE "return"

AfterCheck(instance, name, model) ==
    IF instance = 0 THEN "try" ELSE "return"

\* line 25
CheckInstance(t) ==
    /\ epc[t] = "check"
    /\ epc' = [epc EXCEPT ![t] = AfterCheck(e_instance, e_arg[t], e_model)]
    /\ UNCHANGED <<e_instance, e_model, e_dim, e_objects, e_arg, e_calls,
                   e_loads, e_returned, e_raised>>
    /\ UNCHANGED <<storeVars, dbVars, diskVars, callVars, histVars, retrVars,
                   chunkVars, moreVars>>

\* line 40: cls._instance = super().__new__(cls), before the model loads
TryNew(t) ==
    /\ epc[t] = "try"
    /\ e_objects' = e_objects + 1
    /\ e_instance' = e_objects'
    /\ epc' = [epc EXCEPT ![t] = "load"]
    /\ UNCHANGED <<e_model, e_dim, e_arg, e_calls, e_loads, e_returned,
                   e_raised>>
    /\ UNCHANGED <<storeVars, dbVars, diskVars, callVars, histVars, retrVars,
                   chunkVars, moreVars>>

\* lines 41-42: SentenceTransformer(model_name) returns a model or raises
LoadPrimary(t, ok) ==
    /\ epc[t] = "load"
    /\ IF ok
       THEN /\ e_model' = e_arg[t]
            /\ e_dim' = ModelDim(e_arg[t])
            /\ e_loads' = e_loads + 1
            /\ epc' = [epc EXCEPT ![t] = "return"]
       ELSE /\ epc' = [epc EXCEPT ![t] = "except"]
            /\ UNCHANGED <<e_model, e_dim, e_loads>>
    /\ UNCHANGED <<e_instance, e_objects, e_arg, e_calls, e_returned,
                   e_raised>>
    /\ UNCHANGED <<storeVars, dbVars, diskVars, callVars, histVars, retrVars,
                   chunkVars, moreVars>>

\* line 47: the except clause allocates a second object
ExceptNew(t) ==
    /\ epc[t] = "except"
    /\ e_objects' = e_objects + 1
    /\ e_instance' = e_objects'
    /\ epc' = [epc EXCEPT ![t] = "load_fallback"]
    /\ UNCHANGED <<e_model, e_dim, e_arg, e_calls, e_loads, e_returned,
                   e_raised>>
    /\ UNCHANGED <<storeVars, dbVars, diskVars, callVars, histVars, retrVars,
                   chunkVars, moreVars>>

\* lines 48-49: the fallback model loads, or its exception leaves __new__
LoadFallback(t, ok) ==
    /\ epc[t] = "load_fallback"
    /\ IF ok
       THEN /\ e_model' = FallbackModel
            /\ e_dim' = ModelDim(FallbackModel)
            /\ e_loads' = e_loads + 1
            /\ epc' = [epc EXCEPT ![t] = "return"]
            /\ UNCHANGED e_raised
       ELSE /\ e_raised' = e_raised + 1
            /\ epc' = [epc EXCEPT ![t] = "idle"]
            /\ UNCHANGED <<e_model, e_dim, e_loads>>
    /\ UNCHANGED <<e_instance, e_objects, e_arg, e_calls, e_returned>>
    /\ UNCHANGED <<storeVars, dbVars, diskVars, callVars, histVars, retrVars,
                   chunkVars, moreVars>>

\* line 51: return cls._instance; the caller reads model and dim from it
Return(t) ==
    /\ epc[t] = "return"
    /\ e_returned' = e_returned \cup
           {[call |-> e_calls, instance |-> e_instance, model |-> e_model,
             dim |-> e_dim]}
    /\ epc' = [epc EXCEPT ![t] = "idle"]
    /\ UNCHANGED <<e_instance, e_model, e_dim, e_objects, e_arg, e_calls,
                   e_loads, e_raised>>
    /\ UNCHANGED <<storeVars, dbVars, diskVars, callVars, histVars, retrVars,
                   chunkVars, moreVars>>

InitEmbedder ==
    vs = NewVectorStore(1) /\ CacheEmpty /\ CacheIdle /\ RetrIdle /\ ExtIdle

NextEmbedder ==
    \/ \E t \in Threads, name \in ModelNames : Construct(t, name)
    \/ \E t \in Threads : CheckInstance(t)
    \/ \E t \in Threads : TryNew(t)
    \/ \E t \in Threads, ok \in BOOLEAN : LoadPrimary(t, ok)
    \/ \E t \in Threads : ExceptNew(t)
    \/ \E t \in Threads, ok \in BOOLEAN : LoadFallback(t, ok)
    \/ \E t \in Threads : Return(t)

SpecEmbedder == InitEmbedder /\ [][NextEmbedder]_vars

\* ------------------------------------------------- SpecEmbedderConcurrent
\* Embedder() in a request thread while other threads may be inside
\* __new__: the class has no lock, so the callers' steps interleave
ConstructConcurrently(t, name) ==
    /\ epc[t] = "idle"
    /\ e_calls < MaxConstructions
    /\ e_calls' = e_calls + 1
    /\ epc' = [epc EXCEPT ![t] = "check"]
    /\ e_arg' = [e_arg EXCEPT ![t] = name]
    /\ UNCHANGED <<e_instance, e_model, e_dim, e_objects, e_loads,
                   e_returned, e_raised>>
    /\ UNCHANGED <<storeVars, dbVars, diskVars, callVars, histVars, retrVars,
                   chunkVars, moreVars>>

NextEmbedderConcurrent ==
    \/ \E t \in Threads, name \in ModelNames : ConstructConcurrently(t, name)
    \/ \E t \in Threads : CheckInstance(t)
    \/ \E t \in Threads : TryNew(t)
    \/ \E t \in Threads, ok \in BOOLEAN : LoadPrimary(t, ok)
    \/ \E t \in Threads : ExceptNew(t)
    \/ \E t \in Threads, ok \in BOOLEAN : LoadFallback(t, ok)
    \/ \E t \in Threads : Return(t)

SpecEmbedderConcurrent ==
    InitEmbedder /\ [][NextEmbedderConcurrent]_vars

\* ------------------------------------------------------------ SpecChunk
InitChunk ==
    /\ vs = NewVectorStore(1)
    /\ CacheEmpty
    /\ CacheIdle
    /\ RetrIdle
    /\ EmbFresh
    /\ ProbeIdle
    /\ MoreIdle
    /\ cpc = "ready"
    /\ c_text \in {TextOf(shape, style) :
                      shape \in TextShapes, style \in Styles}
    /\ c_max_chars \in MaxCharsVals
    /\ c_overlap \in OverlapVals
    /\ c_chunks = <<>>

\* list(create_chunks(text, max_chars, overlap))
CreateChunksCall ==
    /\ cpc = "ready"
    /\ c_chunks' = CreateChunks(c_text, c_max_chars, c_overlap)
    /\ cpc' = "done"
    /\ UNCHANGED <<c_text, c_max_chars, c_overlap>>
    /\ UNCHANGED <<storeVars, dbVars, diskVars, callVars, histVars, retrVars,
                   embVars, moreVars>>

NextChunk == CreateChunksCall

SpecChunk == InitChunk /\ [][NextChunk]_vars

\* ----------------------------------------------------------- SpecRepeat
\* The documents of the subject are all uploaded before the first call and
\* none is added later.  build_vectorstore_for_subject(subject_id) is then
\* called again and again, one call at a time; every encode and every save
\* succeeds.  Each call that has started runs to its end, and a new call
\* always follows.
InitRepeat ==
    /\ vs = NewVectorStore(1)
    /\ rows \in SUBSET DocIds
    /\ is_indexed = [d \in DocIds |-> FALSE]
    /\ fileKind \in [DocIds -> Kinds]
    /\ indexFile = NoIndexFile
    /\ dataFile = NoDataFile
    /\ CacheIdle
    /\ RetrIdle
    /\ ExtIdle

NextRepeat ==
    \/ BuildStart(TRUE)
    \/ LoadFromDisk
    \/ \E order \in SeqsUpTo(DocIds, NDocs) : SelectDocs(order)
    \/ ProcessDoc
    \/ SaveToDisk("ok")
    \/ Finish

SpecRepeat == InitRepeat /\ [][NextRepeat]_vars /\ WF_vars(NextRepeat)

\* ------------------------------------------------------------- SpecRace
\* Two requests call build_vectorstore_for_subject(subject_id) for the same
\* subject at the same time.  Nothing in pipeline.py or vectorstore.py
\* locks: the steps of the two calls interleave at every database
\* statement and at every file write.
InitRace ==
    /\ vs = NewVectorStore(1)
    /\ rows = DocIds
    /\ is_indexed = [d \in DocIds |-> FALSE]
    /\ fileKind = [d \in DocIds |-> "ok"]
    /\ indexFile = NoIndexFile
    /\ dataFile = NoDataFile
    /\ CacheIdle
    /\ RetrIdle
    /\ ExtIdle

\* lines 116-146 of request r: the cache check; with usable files and no
\* un-indexed row the cached store is loaded and returned
RaceStart(r) ==
    /\ requests[r].pc = "idle"
    /\ requests' =
          [requests EXCEPT
             ![r].path = Branch(TRUE),
             ![r].pc = IF Branch(TRUE) = "valid" THEN "done" ELSE "rebuild",
             ![r].vectorstore =
                 IF Branch(TRUE) = "valid"
                 THEN LoadFromDiskStore(indexFile, dataFile) ELSE @]
    /\ UNCHANGED wrote
    /\ UNCHANGED <<storeVars, dbVars, diskVars, callVars, histVars, retrVars,
                   embVars, chunkVars, clientVars, routeVars>>

\* lines 175-201 of request r: a fresh store and the SELECT of the rows
\* that are un-indexed at this moment
RaceSelectDocs(r, order) ==
    /\ requests[r].pc = "rebuild"
    /\ order \in Orders(SelectUnindexed)
    /\ requests' =
          [requests EXCEPT
             ![r].vectorstore = NewVectorStore(EmbedderDim),
             ![r].docs = order,
             ![r].pos = 1,
             ![r].pc = IF order = <<>> THEN "save" ELSE "loop"]
    /\ UNCHANGED wrote
    /\ UNCHANGED <<storeVars, dbVars, diskVars, callVars, histVars, retrVars,
                   embVars, chunkVars, clientVars, routeVars>>

\* lines 203-251 of request r: one iteration of the loop on a readable
\* file, ending with the UPDATE and the commit
RaceProcessDoc(r) ==
    /\ requests[r].pc = "loop"
    /\ LET q == requests[r]
           d == q.docs[q.pos]
           chunks == ChunksOf(d)
       IN  /\ requests' =
                 [requests EXCEPT
                    ![r].vectorstore =
                        VSAdd(q.vectorstore,
                              [shape |-> "2d", rows |-> Encode(chunks)],
                              chunks,
                              [given |-> TRUE,
                               items |-> ChunkMetadata(d, chunks)]),
                    ![r].pos = q.pos + 1,
                    ![r].pc = AfterIteration("ok", q.pos = Len(q.docs))]
           /\ is_indexed' = MarkIndexed(is_indexed, d)
    /\ UNCHANGED <<wrote, rows, fileKind>>
    /\ UNCHANGED <<storeVars, diskVars, callVars, histVars, retrVars,
                   embVars, chunkVars, clientVars, routeVars>>

\* save_to_disk, line 126: faiss.write_index(self.index, index_path)
RaceWriteIndex(r) ==
    /\ requests[r].pc = "save"
    /\ indexFile' = WrittenIndex(requests[r].vectorstore)
    /\ wrote' = [wrote EXCEPT !.index = r]
    /\ requests' = [requests EXCEPT ![r].pc = "dump"]
    /\ UNCHANGED dataFile
    /\ UNCHANGED <<storeVars, dbVars, callVars, histVars, retrVars,
                   embVars, chunkVars, clientVars, routeVars>>

\* save_to_disk, lines 128-133: pickle.dump of texts, metadata and dim,
\* then the return of build_vectorstore_for_subject
RaceWriteData(r) ==
    /\ requests[r].pc = "dump"
    /\ dataFile' = WrittenData(requests[r].vectorstore)
    /\ wrote' = [wrote EXCEPT !.data = r]
    /\ requests' = [requests EXCEPT ![r].pc = "done"]
    /\ UNCHANGED indexFile
    /\ UNCHANGED <<storeVars, dbVars, callVars, histVars, retrVars,
                   embVars, chunkVars, clientVars, routeVars>>

NextRace ==
    \/ \E r \in Requests : RaceStart(r)
    \/ \E r \in Requests, order \in SeqsUpTo(DocIds, NDocs) :
          RaceSelectDocs(r, order)
    \/ \E r \in Requests : RaceProcessDoc(r)
    \/ \E r \in Requests : RaceWriteIndex(r)
    \/ \E r \in Requests : RaceWriteData(r)

SpecRace == InitRace /\ [][NextRace]_vars

\* ---------------------------------------------- claims on SpecRetrieve
Reached == rpc = "done" /\ retrieved.stage1 # <<>>

\* the stage-1 similarity of the candidate with a given text
Stage1Score(text) ==
    LET i == CHOOSE j \in 1..Len(retrieved.stage1) :
                 retrieved.stage1[j].text = text
    IN  retrieved.stage1[i].score

Descending(s) == \A i \in 1..(Len(s) - 1) : s[i].score >= s[i + 1].score

TextAndScore(s) == [i \in 1..Len(s) |-> <<s[i].text, s[i].score>>]

\* C3: when the cross-encoder is loaded and its predict succeeds, every
\* candidate's score is the reranker's score of its own (query, text) pair,
\* original_score keeps its stage-1 similarity, and the candidates and the
\* results are in descending order of that score.
C3_OwnPairScore ==
    (Reached /\ cross_encoder = "loaded" /\ ce_predict = "ok")
        => /\ \A i \in 1..Len(retrieved.candidates) :
                LET c == retrieved.candidates[i]
                IN  /\ c.score = PairScore(pair_scores, c.text)
                    /\ c.original_score = Stage1Score(c.text)
           /\ Descending(retrieved.candidates)
           /\ Descending(retrieved.results)

\* C4: when no reranker is available or reranking throws, the call returns
\* the stage-1 candidates in stage-1 order with their similarity scores,
\* filtered by the threshold and cut to top_k.
RerankUnavailable == cross_encoder = "unloaded" /\ reranker = "none"

RerankThrows ==
    \/ cross_encoder = "loaded" /\ ce_predict = "throws"
    \/ cross_encoder = "unloaded" /\ reranker \in {"throws", "short"}

C4_DegradesToStage1 ==
    (Reached /\ (RerankUnavailable \/ RerankThrows))
        => /\ retrieved.status = "returned"
           /\ TextAndScore(retrieved.results) =
                TextAndScore(Take(SelectSeq(retrieved.stage1,
                                            LAMBDA c :
                                              c.score >= score_threshold),
                                  top_k))

\* C5: every returned result has score >= score_threshold, whichever
\* scorer produced the score.
C5_Threshold ==
    rpc = "done" =>
        \A i \in 1..Len(retrieved.results) :
            retrieved.results[i].score >= score_threshold

C5_Witness ==
    /\ Reached
    /\ retrieved.results # <<>>
    /\ retrieved.results[1].reranked
    /\ \E i \in 1..Len(retrieved.candidates) :
          /\ retrieved.candidates[i].score < score_threshold
          /\ retrieved.candidates[i].original_score >= score_threshold

\* ------------------------------------------------- claims on SpecCache
\* what the claims say about a call, stated from the state at its start
InCall == pc # "idle"

UnindexedAtStart == {d \in rows : ~at_start.is_indexed[d]}

FilesAtStart == at_start.indexFile.exists /\ at_start.dataFile.exists

\* documents this call turned from un-indexed to indexed
NewlyIndexed == {d \in rows : is_indexed[d] /\ ~at_start.is_indexed[d]}

InStore(d, store) == Range(ChunksOf(d)) \subseteq Range(store.texts)

\* the loop of _build_vectorstore_from_db ran to its end
LoopDone == pc = "save" \/ (pc = "done" /\ save_outcome # "none")

\* C2: between calls, every document whose is_indexed flag is TRUE has its
\* chunks in the store persisted in the subject's cache files.
C2_IndexedIsCached ==
    pc = "idle" =>
        \A d \in rows :
            is_indexed[d] =>
                /\ indexFile.ok
                /\ dataFile.ok
                /\ InStore(d, LoadFromDiskStore(indexFile, dataFile))

\* C6: when use_cache is true, both cache files exist, no document is
\* un-indexed (and the files are readable), the call returns the store
\* loaded from disk with from_cache = TRUE, and in no case does it extract,
\* embed, update is_indexed or write a cache file.
ReusePre == InCall /\ use_cache /\ FilesAtStart /\ UnindexedAtStart = {}

C6_CacheReuse ==
    ReusePre =>
        /\ extracted = {}
        /\ encoded = {}
        /\ is_indexed = at_start.is_indexed
        /\ writes = 0
        /\ indexFile = at_start.indexFile
        /\ dataFile = at_start.dataFile
        /\ (pc = "done" /\ ~LoadThrows(at_start.indexFile, at_start.dataFile))
              => /\ result.status = "returned"
                 /\ result.metadata.from_cache
                 /\ result.metadata.docs_processed = 0
                 /\ result.store =
                      LoadFromDiskStore(at_start.indexFile, at_start.dataFile)

C6_Witness ==
    /\ ReusePre
    /\ pc = "done"
    /\ result.status = "returned"
    /\ result.metadata.from_cache
    /\ Len(result.store.texts) > 0

\* C7: when the cache files exist and some document is un-indexed, the call
\* ingests exactly the documents un-indexed at its start, a document is
\* marked indexed only once its chunks are embedded and in the store, and
\* the cache files are written only after the loop, with the built store.
StalePre == InCall /\ FilesAtStart /\ UnindexedAtStart # {}

C7_StaleRebuild ==
    StalePre =>
        /\ pc \in {"loop", "save"} => Range(docs) = UnindexedAtStart
        /\ extracted \subseteq UnindexedAtStart
        /\ LoopDone =>
              encoded \cup Range(metadata.failed_files) = UnindexedAtStart
        /\ \A d \in NewlyIndexed : d \in encoded /\ InStore(d, vectorstore)
        /\ writes > 0 => LoopDone /\ pc = "done"
        /\ (pc = "done" /\ save_outcome = "ok")
              => /\ indexFile = WrittenIndex(vectorstore)
                 /\ dataFile = WrittenData(vectorstore)
                 /\ result.store = vectorstore
                 /\ \A d \in NewlyIndexed : InStore(d, result.store)

C7_Witness ==
    /\ StalePre
    /\ pc = "done"
    /\ save_outcome = "ok"
    /\ NewlyIndexed # {}
    /\ at_start.dataFile.ok
    /\ dataFile # at_start.dataFile

\* C8: if load_from_disk throws while the call reuses a cache it judged
\* valid, nothing is raised: the call rebuilds and returns a store.
C8_LoadFailureRebuilds ==
    (/\ ReusePre
     /\ LoadThrows(at_start.indexFile, at_start.dataFile)
     /\ pc = "done")
        => result.status = "returned"

\* C9: if save_to_disk throws after a rebuild, the call raises nothing,
\* returns the store built in this call and reports cached = False.
SaveThrew == pc = "done" /\ save_outcome \notin {"none", "ok"}

C9_SaveFailureNonFatal ==
    SaveThrew =>
        /\ result.status = "returned"
        /\ result.store = vectorstore
        /\ \A d \in Range(docs) : fileKind[d] = "ok" => InStore(d, result.store)
        /\ result.metadata.cached = "false"

C9_Witness ==
    /\ SaveThrew
    /\ save_outcome = "fail_dump"
    /\ result.status = "returned"
    /\ Len(result.store.texts) > 0

\* C10: a document whose file is missing, has no text or yields no chunks
\* is listed in failed_files and stays un-indexed, and the documents of the
\* batch before and after it are processed and indexed.
Handled(d) ==
    IF fileKind[d] = "ok"
    THEN /\ is_indexed[d]
         /\ InStore(d, vectorstore)
         /\ d \notin Range(metadata.failed_files)
    ELSE /\ ~is_indexed[d]
         /\ d \in Range(metadata.failed_files)
         /\ ~InStore(d, vectorstore)

C10_PartialFailure ==
    /\ \A d \in rows : fileKind[d] # "ok" => ~is_indexed[d]
    /\ pc \in {"loop", "save"} => \A i \in 1..(pos - 1) : Handled(docs[i])
    /\ LoopDone => /\ pos = Len(docs) + 1
                   /\ \A d \in Range(docs) : Handled(d)

C10_Witness ==
    /\ LoopDone
    /\ \E i, j \in 1..Len(docs) :
          /\ i < j
          /\ fileKind[docs[i]] # "ok"
          /\ docs[i] \in Range(metadata.failed_files)
          /\ fileKind[docs[j]] = "ok"
          /\ is_indexed[docs[j]]

\* C11: when the subject has no document at all, the call raises to its
\* caller: it returns no store and writes no cache file.
C11_NoDocumentsRaises ==
    (pc = "done" /\ rows = {}) =>
        /\ result.status = "raised"
        /\ writes = 0

\* C12: for an empty or whitespace-only query, retrieve_context and
\* retrieve_context_with_reranking return [] without raising and without
\* calling the embedder, the vector store or the reranker.
C12_BlankQueryReturnsEmpty ==
    (rpc \in {"done", "done_basic"} /\ query \in {"", " "}) =>
        /\ retrieved.status = "returned"
        /\ retrieved.results = <<>>
        /\ retrieved.calls = {}

C12_Witness ==
    /\ rpc = "done"
    /\ query = " "
    /\ SearchHits(vs, initial_k) # <<>>
    /\ retrieved.results = <<>>
    /\ retrieved.calls = {}

\* C15: in the candidate list the call filters and returns, all scores come
\* from one scorer: either every candidate carries its stage-1 similarity or
\* every candidate carries a reranker score.
OneScorer(cands) ==
    \A i, j \in 1..Len(cands) : cands[i].reranked = cands[j].reranked

C15_OneScorer ==
    rpc = "done" =>
        /\ OneScorer(retrieved.candidates)
        /\ OneScorer(retrieved.results)

\* ----------------------------------------------- claims on SpecEmbedder
\* C13: every construction that returns gives the same instance, whatever
\* model_name it was called with, and the model is loaded at most once.
C13_Singleton ==
    /\ \A r1, r2 \in e_returned : r1.instance = r2.instance
    /\ e_loads <= 1

C13_Witness ==
    /\ e_loads = 1
    /\ \E r1, r2 \in e_returned :
          /\ r1.call # r2.call
          /\ r1.instance = r2.instance
    /\ \E t \in Threads : e_arg[t] # e_model

\* C14: a construction that returns gives an instance with a loaded model
\* and a dimension, also after a construction in which both loads failed.
C14_ReturnedHasModel ==
    \A r \in e_returned : r.model # "None" /\ r.dim # 0

\* ------------------------------------------------- claims on SpecProbe
\* each text of the store has a metadata entry at its position
EachTextHasMetadata == Len(vs.metadata) >= Len(vs.texts)

\* C16: search_with_scores(q, top_k) on a store of N chunks returns at most
\* min(top_k, N) results, each a stored text with the metadata stored at
\* the same position and the score of the vector at that position, never a
\* padding entry; on an empty store it returns [].
C16_SearchBounded ==
    found.called =>
        /\ EachTextHasMetadata => found.status = "returned"
        /\ Len(found.results) <= Min(found.k, Len(vs.texts))
        /\ \A i \in 1..Len(found.results) :
              \E p \in 1..Len(vs.texts) :
                  /\ p <= Len(vs.metadata)
                  /\ p <= Len(vs.index)
                  /\ found.results[i].text = vs.texts[p]
                  /\ found.results[i].metadata = vs.metadata[p]
                  /\ found.results[i].score = vs.index[p]
        /\ vs.texts = <<>> =>
              found.status = "returned" /\ found.results = <<>>

C16_Witness ==
    /\ found.called
    /\ found.k > Len(vs.texts)
    /\ Len(vs.texts) > MaxArg
    /\ C1_Aligned
    /\ Len(found.results) = Len(vs.texts)
    /\ found.results[1].metadata # found.results[2].metadata

LongSentence(c) == c.single /\ StrLen(c.body) > c_max_chars

\* C18: every chunk that create_chunks yields, except a chunk made of one
\* sentence longer than max_chars, has at most max_chars + overlap
\* characters, for overlap = 0 and for max_chars below 1000 too.
C18_ChunkLengthBounded ==
    cpc = "done" =>
        \A i \in 1..Len(c_chunks) :
            ~LongSentence(c_chunks[i]) =>
                StrLen(c_chunks[i].text) <= c_max_chars + c_overlap

\* C19: the first chunk carries no prefix, and every later chunk is the
\* last overlap characters of the chunk flushed before it followed by its
\* own text, so that its prefix has at most overlap characters and is
\* empty when overlap = 0.
C19_PrefixIsOverlap ==
    cpc = "done" =>
        \A i \in 1..Len(c_chunks) :
            IF i = 1
            THEN c_chunks[i].text = c_chunks[i].body
            ELSE /\ c_chunks[i].text =
                       Strip(LastChars(c_chunks[i - 1].body, c_overlap)
                               \o c_chunks[i].body)
                 /\ StrLen(c_chunks[i].text)
                       <= c_overlap + StrLen(c_chunks[i].body)

\* the characters of a string one by one; a word of the input counts as
\* one item
RECURSIVE Chars(_)
Chars(s) ==
    IF s = <<>> THEN <<>>
    ELSE (IF IsSpace(s[1])
          THEN [i \in 1..s[1].len |-> [s[1] EXCEPT !.len = 1]]
          ELSE <<s[1]>>) \o Chars(Tail(s))

\* a appears, in order, in b
RECURSIVE IsSubseq(_, _)
IsSubseq(a, b) ==
    IF a = <<>> THEN TRUE
    ELSE IF b = <<>> THEN FALSE
    ELSE IF a[1] = b[1] THEN IsSubseq(Tail(a), Tail(b))
    ELSE IsSubseq(a, Tail(b))

\* the chunks one after the other without their overlap prefixes
RECURSIVE Bodies(_)
Bodies(chunks) ==
    IF chunks = <<>> THEN <<>>
    ELSE chunks[1].body \o Bodies(Tail(chunks))

\* removing the prefix of a chunk leaves its body
PrefixRemovable(c) == LastChars(c.text, StrLen(c.body)) = c.body

\* C20 as stated: every character of a non-empty text, whitespace
\* included, appears in order in the chunks without their overlap
\* prefixes.
C20_EveryCharacterKept ==
    (cpc = "done" /\ c_text # <<>>) =>
        /\ \A i \in 1..Len(c_chunks) : PrefixRemovable(c_chunks[i])
        /\ IsSubseq(Chars(c_text), Chars(Bodies(c_chunks)))

\* C20 amended: every character of a non-empty text that is not
\* whitespace appears in order in the chunks without their overlap
\* prefixes.
C20_EveryNonSpaceKept ==
    (cpc = "done" /\ c_text # <<>>) =>
        /\ \A i \in 1..Len(c_chunks) : PrefixRemovable(c_chunks[i])
        /\ IsSubseq(Words(c_text), Words(Bodies(c_chunks)))

C20_Witness ==
    /\ cpc = "done"
    /\ Len(c_chunks) >= 3
    /\ c_overlap > 0
    /\ \E i \in 1..Len(c_chunks) :
          /\ c_chunks[i].prefix # <<>>
          /\ c_chunks[i].text # c_chunks[i].body
    /\ \E i \in 1..Len(c_chunks) : c_chunks[i].single
    /\ ~IsSubseq(Chars(c_text), Chars(Bodies(c_chunks)))
    /\ Words(c_text) = Words(Bodies(c_chunks))

\* ----------------------------------------------------------- SpecClient
\* the arguments and environment lines 42-58 accept or reject
Preconditions == {"ok", "no_api_key", "bad_messages"}

InitClient ==
    /\ vs = NewVectorStore(1)
    /\ CacheEmpty
    /\ CacheIdle
    /\ RetrIdle
    /\ ExtIdle

\* call_openrouter(messages, max_retries=max), lines 42-58: without an API
\* key LLMClientError is raised, on malformed messages ValueError
CallOpenrouter(max, pre) ==
    /\ lpc = "idle"
    /\ max_retries' = max
    /\ attempt' = 1
    /\ responses' = <<>>
    /\ IF pre = "ok"
       THEN lpc' = "loop" /\ llm_result' = NoLLMResult
       ELSE /\ lpc' = "done"
            /\ llm_result' =
                  [status |-> "raised",
                   value |-> IF pre = "no_api_key" THEN "LLMClientError"
                             ELSE "ValueError"]
    /\ UNCHANGED <<storeVars, dbVars, diskVars, callVars, histVars, retrVars,
                   embVars, chunkVars, raceVars, routeVars>>

\* lines 87-228: one iteration of the loop: the request is sent, the
\* response or exception is handled, and the call returns, raises or goes
\* on to the next attempt
Attempt(outcome) ==
    /\ lpc = "loop"
    /\ ~LoopEnds(attempt, max_retries)
    /\ responses' = Append(responses, outcome)
    /\ LET next == ExceptClause(TryBody(outcome, attempt, max_retries),
                                attempt, max_retries)
       IN  CASE next = "continue" ->
                  /\ attempt' = attempt + 1
                  /\ UNCHANGED <<lpc, llm_result>>
             [] next = "return" ->
                  /\ llm_result' = [status |-> "returned",
                                    value |-> Content(attempt)]
                  /\ lpc' = "done"
                  /\ UNCHANGED attempt
             [] OTHER ->
                  /\ llm_result' = [status |-> "raised", value |-> next]
                  /\ lpc' = "done"
                  /\ UNCHANGED attempt
    /\ UNCHANGED max_retries
    /\ UNCHANGED <<storeVars, dbVars, diskVars, callVars, histVars, retrVars,
                   embVars, chunkVars, raceVars, routeVars>>

\* line 230: the loop is over without a return
LoopExhausted ==
    /\ lpc = "loop"
    /\ LoopEnds(attempt, max_retries)
    /\ llm_result' = [status |-> "raised", value |-> "RateLimitError"]
    /\ lpc' = "done"
    /\ UNCHANGED <<max_retries, attempt, responses>>
    /\ UNCHANGED <<storeVars, dbVars, diskVars, callVars, histVars, retrVars,
                   embVars, chunkVars, raceVars, routeVars>>

NextClient ==
    \/ \E max \in 0..MaxRetries, pre \in Preconditions :
          CallOpenrouter(max, pre)
    \/ \E outcome \in Outcomes : Attempt(outcome)
    \/ LoopExhausted

SpecClient == InitClient /\ [][NextClient]_vars

\* ----------------------------------------------------------- SpecRoutes
\* the tables as the rest of the system left them: a few tasks that
\* belong to sessions, none of them applied yet
InitialTasks ==
    SeqsUpTo([session_id : Sessions,
              generation_status : {"none", "draft"}], MaxTasks - 1)

InitRoutes ==
    /\ vs = NewVectorStore(1)
    /\ CacheEmpty
    /\ CacheIdle
    /\ RetrIdle
    /\ EmbFresh
    /\ ProbeIdle
    /\ ChunkIdle
    /\ RaceIdle
    /\ ClientIdle
    /\ tasks \in InitialTasks
    /\ logs = 0
    /\ last = NoRequestYet

\* POST /generate in session mode with session_id s
GenerateAssessment(s, mode, notes, env) ==
    /\ LET out == GenerateOutcome(tasks, s, mode, notes, env)
       IN  /\ out.inserts => Len(tasks) < MaxTasks
           /\ tasks' = IF out.inserts THEN Append(tasks, InsertedTask)
                        ELSE tasks
           /\ logs' = IF out.inserts THEN logs + 1 ELSE logs
           /\ last' = [kind |-> "generate", session_id |-> s, mode |-> mode,
                        notes |-> notes, code |-> out.code, tasks |-> tasks,
                        logs |-> logs]
    /\ UNCHANGED <<storeVars, dbVars, diskVars, callVars, histVars, retrVars,
                   embVars, chunkVars, raceVars, clientVars>>

\* PATCH /task/<task_id>/status, lines 671-720
UpdateTaskStatus(task_id, new_status) ==
    /\ LET code == IF new_status \notin ValidStatuses THEN 400
                   ELSE IF task_id > Len(tasks) THEN 404 ELSE 200
       IN  /\ tasks' = IF code = 200
                        THEN [tasks EXCEPT
                                ![task_id].generation_status = new_status]
                        ELSE tasks
           /\ last' = [kind |-> "status", session_id |-> 0,
                        mode |-> "normal", notes |-> "", code |-> code,
                        tasks |-> tasks, logs |-> logs]
    /\ UNCHANGED logs
    /\ UNCHANGED <<storeVars, dbVars, diskVars, callVars, histVars, retrVars,
                   embVars, chunkVars, raceVars, clientVars>>

NextRoutes ==
    \/ \E s \in Sessions, mode \in {"normal", "preview"},
          notes \in {"", "n"}, env \in Environments :
          GenerateAssessment(s, mode, notes, env)
    \/ \E task_id \in 1..MaxTasks, new_status \in ValidStatuses \cup {""} :
          UpdateTaskStatus(task_id, new_status)

SpecRoutes == InitRoutes /\ [][NextRoutes]_vars

\* ------------------------------------------- later claims on SpecCache
\* C27: when _build_vectorstore_from_db raises part-way through its
\* batch, the is_indexed flag of every document is what it was before the
\* call.
C27_RaiseLeavesFlags ==
    (pc = "done" /\ result.status = "raised" /\ ~load_threw) =>
        is_indexed = at_start.is_indexed

\* C28: with one build at a time, whenever both cache files of the
\* subject exist and are readable they come from the same save_to_disk
\* call: the index file holds as many vectors as the data file holds
\* texts, also after a save that failed between the two writes.
C28_FilesFromSameSave ==
    (indexFile.exists /\ indexFile.ok /\ dataFile.exists /\ dataFile.ok) =>
        Len(indexFile.index) = Len(dataFile.texts)

\* C29: when no document is uploaded any more, repeated calls of
\* build_vectorstore_for_subject reach a point from which every call takes
\* the cache-reuse path and returns from_cache = True, also when a
\* document of the subject can never be extracted.
C29_EventuallyReusesCache ==
    <>[](pc = "done" => path = "valid" /\ result.metadata.from_cache)

\* --------------------------------------------------- claims on SpecRace
\* both requests rebuilt the cache and have returned
BothRebuilt ==
    \A r \in Requests :
        requests[r].pc = "done" /\ requests[r].path # "valid"

\* C21: after two concurrent rebuilds of the same subject have finished,
\* the index file and the data file come from the same build, so
\* load_from_disk gives a store with len(texts) = index.ntotal.
C21_LastWriterWinsWhole ==
    BothRebuilt =>
        /\ wrote.index = wrote.data
        /\ LET store == LoadFromDiskStore(indexFile, dataFile)
           IN  Len(store.texts) = Len(store.index)

\* C25: a call of retrieve_context_with_reranking with reranker = None
\* skips reranking: its results are the stage-1 candidates that pass the
\* threshold, in similarity order with their similarity scores, and none
\* is marked reranked.
C25_NoRerankerSkips ==
    (rpc = "done" /\ reranker = "none" /\ retrieved.status = "returned") =>
        /\ "rerank" \notin retrieved.calls
        /\ retrieved.results =
              Take(FilterByThreshold(retrieved.stage1, score_threshold),
                   top_k)
        /\ \A i \in 1..Len(retrieved.results) :
              ~retrieved.results[i].reranked

\* ------------------------------------------------- claims on SpecClient
\* positions of the successful responses among those received
Successes == {i \in 1..Len(responses) : responses[i] = "ok"}

\* C22: whatever the responses, call_openrouter sends at most max_retries
\* requests; when it is over it has returned the non-empty content of the
\* first successful response or raised an error; no request follows a
\* success.
C22_BoundedRetries ==
    /\ Len(responses) <= max_retries
    /\ lpc = "loop" => Len(responses) = attempt - 1 /\ Successes = {}
    /\ \A i \in Successes : i = Len(responses)
    /\ lpc = "done" =>
          /\ llm_result.status \in {"returned", "raised"}
          /\ llm_result.status = "returned" <=> Successes # {}
          /\ llm_result.status = "returned" =>
                llm_result.value = Content(Len(responses))

C22_Witness ==
    /\ lpc = "done"
    /\ llm_result.status = "returned"
    /\ Len(responses) = max_retries
    /\ Len(responses) >= 3
    /\ responses[1] = "429"
    /\ responses[2] = "timeout"

\* a response whose handling raises ModelError
RaisesModelError(i) ==
    TryBody(responses[i], i, max_retries) = "ModelError"

\* C26: a ModelError raised while a response is handled is re-raised to
\* the caller and no further request is sent.
C26_ModelErrorNotRetried ==
    \A i \in 1..Len(responses) :
        RaisesModelError(i) =>
            /\ Len(responses) = i
            /\ lpc = "done"
            /\ llm_result = [status |-> "raised", value |-> "ModelError"]

\* ------------------------------------------------- claims on SpecRoutes
\* C23: after any generate and status-update requests, POST /generate for
\* a session one of whose tasks is 'applied' is answered with 409 and
\* creates or updates no assessment task.
C23_AppliedBlocksGenerate ==
    (/\ last.kind = "generate"
     /\ \E i \in TasksOf(last.tasks, last.session_id) :
           last.tasks[i].generation_status = "applied")
        => last.code = 409 /\ tasks = last.tasks

\* C24: POST /generate with mode = 'preview' inserts or updates no row of
\* assessment_task and of ai_generation_log.
C24_PreviewWritesNothing ==
    (last.kind = "generate" /\ last.mode = "preview")
        => tasks = last.tasks /\ logs = last.logs

\* ------------------------------------- claims on SpecEmbedderConcurrent
\* C30: when several requests construct Embedder() at the same time for
\* the first time, every caller gets an instance whose model is loaded,
\* and the model is loaded once only, even when every load succeeds.
C30_ConcurrentFirstUse ==
    (e_raised = 0 /\ \A t \in Threads : epc[t] \notin {"except",
                                                       "load_fallback"}) =>
        /\ \A r \in e_returned : r.model # "None"
        /\ e_loads <= 1

====
